---- MODULE Spec2Model ----
(***************************************************************************)
(* Model of src/fund_valuation_tracker/calculator.py:                      *)
(* FundValuationCalculator (construction, calculate_stock_return,          *)
(* calculate_fund_valuation, get_summary_stats).                           *)
(*                                                                         *)
(* Numbers.  Python floats are modelled as exact rationals <<n, d>> in     *)
(* lowest terms with d > 0; two non-numbers of the same shape stand for a  *)
(* raised ZeroDivisionError (<<1, 0>>) and a raised TypeError (<<0, 0>>).  *)
(* Python values that may be None (a previous close, a filled price) are   *)
(* modelled as <<>> for None and <<x>> for the number x.  A dict is a      *)
(* function whose DOMAIN is its key set.  Timestamps, which the code only  *)
(* hashes and sorts, are integers; prices and weights are integers.        *)
(* round(x, 4) is the nearest multiple of 1/10000 of the exact value, ties *)
(* to even; the representation error of binary floats is not modelled.     *)
(*                                                                         *)
(* Further down: rate_limit (src/utils/query_data_from_choice.py),         *)
(* load_fund_list and get_valuation (src/fund_valuation_tracker/app.py),   *)
(* generate_summary (src/auto_report/llm_summary.py) and                   *)
(* batch_get_intraday_klines (src/fund_valuation_tracker/data_fetcher.py), *)
(* each with a specification of its own in which the others stand still.   *)
(***************************************************************************)
EXTENDS Integers, Sequences, FiniteSets, TLC

VARIABLES
    holdings_data,          \* self.holdings_data: sequence of rows [code, ratio]
    prev_close_dict,        \* self.prev_close_dict: code -> None | number
    stock_position_ratio,   \* self.stock_position_ratio
    scale_factor,           \* self.scale_factor
    intraday_klines,        \* the intraday map handed to calculate_fund_valuation
    all_times,              \* calculate_fund_valuation: sorted list of timestamps
    stock_price_map,        \* calculate_fund_valuation: code -> (time -> filled price)
    result,                 \* calculate_fund_valuation: the returned list
    ret_call,               \* last calculate_stock_return call: <<>> or <<code, price, value>>
    valuation_data,         \* the series handed to get_summary_stats
    stats,                  \* get_summary_stats: the returned dict
    pc,                     \* "ready" after construction, "valued" after a valuation,
                            \* "returned" after a direct calculate_stock_return,
                            \* "summarized" after get_summary_stats
    max_requests,           \* rate_limit: the decorator's max_requests
    time_window,            \* rate_limit: the decorator's time_window, in seconds
    clock,                  \* rate_limit: the time datetime.now() returns
    calls,                  \* rate_limit: the list calls of the decorated function
    executions,             \* rate_limit: the times at which func was executed
    fund_list_file,         \* static/fund_list.json: None when absent, else its funds
    fund_list_cache,        \* app._fund_list_cache: None or the cached list
    fund_code_to_init,      \* app._fund_code_to_init: code -> init_code
    cache_lock,             \* app._cache_lock: None when free, else the holder
    thread_pc,              \* load_fund_list: where each calling thread is
    data,                   \* load_fund_list: the local data of each thread
    returned,               \* load_fund_list: what it returned to each thread
    seen,                   \* resolve_init_code: the map each caller then reads
    readers,                \* the threads that have opened the file
    max_retries,            \* generate_summary: the parameter max_retries
    attempt,                \* generate_summary: the loop variable attempt
    replies,                \* what client.chat.completions.create did, call by call
    last_error,             \* generate_summary: last_error
    summary,                \* generate_summary: the returned value
    gen_pc,                 \* generate_summary: "loop", "returned" or "raised"
    stock_codes,            \* batch_get_intraday_klines: the requested codes
    futures,                \* one future per requested code: its state and outcome
    batch_result,           \* batch_get_intraday_klines: the dict result
    batch_pc,               \* batch_get_intraday_klines: "collecting" or "returned"
    request_body,           \* get_valuation: request.get_json(), None or the fund code
    handler_pc,             \* get_valuation: the step the handler is at
    handler_locals,         \* get_valuation: holdings, stock_position, prev_close_dict,
                            \* intraday_klines, each None until it is fetched
    trace,                  \* get_valuation: the fetches made and exceptions raised
    response                \* get_valuation: None or the status code returned

\* the calculator and its callers
calculator == <<holdings_data, prev_close_dict, stock_position_ratio, scale_factor,
                intraday_klines, all_times, stock_price_map, result, ret_call,
                valuation_data, stats, pc>>

\* the rate limiter
limiter == <<max_requests, time_window, clock, calls, executions>>

\* the fund-list cache and its callers
cache == <<fund_list_file, fund_list_cache, fund_code_to_init, cache_lock,
           thread_pc, data, returned, seen, readers>>

\* the summary generator
generator == <<max_retries, attempt, replies, last_error, summary, gen_pc>>

\* the parallel quote fetch
batch == <<stock_codes, futures, batch_result, batch_pc>>

\* the request handler
handler == <<request_body, handler_pc, handler_locals, trace, response>>

\* everything but the calculator
services == <<limiter, cache, generator, batch, handler>>

vars == <<calculator, services>>

instance == <<holdings_data, prev_close_dict, stock_position_ratio, scale_factor>>

\* no decorated function has been called
LimiterIdle ==
    /\ max_requests = 1
    /\ time_window = 1
    /\ clock = 0
    /\ calls = <<>>
    /\ executions = <<>>

\* the application has just been imported and nobody has called load_fund_list
CacheIdle ==
    /\ fund_list_file = <<>>
    /\ fund_list_cache = <<>>
    /\ fund_code_to_init = <<>>
    /\ cache_lock = <<>>
    /\ thread_pc = <<>>
    /\ data = <<>>
    /\ returned = <<>>
    /\ seen = <<>>
    /\ readers = {}

\* generate_summary has not been called
GeneratorIdle ==
    /\ max_retries = 0
    /\ attempt = 0
    /\ replies = <<>>
    /\ last_error = <<>>
    /\ summary = <<>>
    /\ gen_pc = "idle"

\* batch_get_intraday_klines has not been called
BatchIdle ==
    /\ stock_codes = <<>>
    /\ futures = <<>>
    /\ batch_result = <<>>
    /\ batch_pc = "idle"

\* no request is being handled
HandlerIdle ==
    /\ request_body = <<>>
    /\ handler_pc = "idle"
    /\ handler_locals = <<>>
    /\ trace = <<>>
    /\ response = <<>>

ServicesIdle ==
    LimiterIdle /\ CacheIdle /\ GeneratorIdle /\ BatchIdle /\ HandlerIdle

-----------------------------------------------------------------------------
(* Bounds and input domains *)

MaxHoldings == 2        \* rows of the holdings table
MaxSamples == 3         \* samples of the intraday map, all series together
MaxInput == 4           \* rows and samples together
MaxPoints == 4          \* points of a series handed to get_summary_stats directly
MaxCalls == 4           \* calls of a rate-limited function
MaxClock == 6           \* seconds the caller lets pass between its calls, in all
MaxRetries == 3         \* the largest max_retries handed to generate_summary
MaxCodes == 3           \* stock codes handed to batch_get_intraday_klines
MaxCallInput == 2       \* rows and samples together, where calls are repeated

Stocks == {"A", "B"}
Weights == {0, 40, 60}  \* percent of net asset value, never negative
PrevCloses == {0, 10, 20}
Ratios == {50}
Times == {1, 2, 3}
Prices == {11, 19}

\* direct calls of calculate_stock_return
ReturnCloses == {-20, -10, 0, 10, 20}
ReturnPrices == {-10, 0, 10, 11, 19, 20}

\* direct calls of get_summary_stats: the values of the points, in percent
StatValues == {-5, 2, 5, 9}

\* repeated calls on one instance
CallCloses == {10}
Limits == {1, 2}                \* values of max_requests
Windows == {2, 3}               \* values of time_window
Threads == {"t1", "t2", "t3"}   \* threads calling load_fund_list
FundCodes == {"F1", "F2"}       \* fund codes of fund_list.json

-----------------------------------------------------------------------------
(* Python values *)

None == <<>>
Some(x) == <<x>>
Val(o) == o[1]

\* dict.get(key, default)
Get(d, k, default) == IF k \in DOMAIN d THEN d[k] ELSE default

-----------------------------------------------------------------------------
(* Rational arithmetic standing for float arithmetic *)

Abs(x) == IF x < 0 THEN -x ELSE x

RECURSIVE GCD(_, _)
GCD(a, b) == IF b = 0 THEN a ELSE GCD(b, a % b)

ZeroDivisionError == <<1, 0>>
TypeError == <<0, 0>>
IsError(r) == r[2] = 0

Rat(n, d) ==
    LET g == GCD(Abs(n), Abs(d))
        s == IF d < 0 THEN -1 ELSE 1
    IN  <<(s * n) \div g, (s * d) \div g>>

Int2Rat(n) == <<n, 1>>
Zero == <<0, 1>>

RAdd(a, b) == IF IsError(a) THEN a ELSE IF IsError(b) THEN b
              ELSE Rat(a[1] * b[2] + b[1] * a[2], a[2] * b[2])
RSub(a, b) == IF IsError(a) THEN a ELSE IF IsError(b) THEN b
              ELSE Rat(a[1] * b[2] - b[1] * a[2], a[2] * b[2])
RMul(a, b) == IF IsError(a) THEN a ELSE IF IsError(b) THEN b
              ELSE Rat(a[1] * b[1], a[2] * b[2])
RDiv(a, b) == IF IsError(a) THEN a ELSE IF IsError(b) THEN b
              ELSE IF b[1] = 0 THEN ZeroDivisionError
              ELSE Rat(a[1] * b[2], a[2] * b[1])

\* A price that may be None, as an operand: arithmetic on None raises TypeError.
Num(o) == IF o = None THEN TypeError ELSE Int2Rat(Val(o))

\* floor(n / d) for d > 0
Floor(n, d) == n \div d

\* round(x, 4): to the nearest multiple of 1/10000, ties to the even one
Round4(r) ==
    IF IsError(r) THEN r
    ELSE LET n == r[1] * 10000
             q == Floor(n, r[2])
             twice == 2 * (n - q * r[2])
             k == IF twice < r[2] THEN q
                  ELSE IF twice > r[2] THEN q + 1
                  ELSE IF q % 2 = 0 THEN q ELSE q + 1
         IN  Rat(k, 10000)

-----------------------------------------------------------------------------
(* __init__ *)

RECURSIVE SumRatio(_)
SumRatio(rows) ==
    IF rows = <<>> THEN 0 ELSE rows[1].ratio + SumRatio(Tail(rows))

\* Faulty variant: the division without the guard on the total.
InitScaleFactor_NoGuard(rows, ratio) ==
    RDiv(Int2Rat(ratio), Int2Rat(SumRatio(rows)))

\* Faulty variant: the weights are taken to add up to 100.
InitScaleFactor_FixedTotal(rows, ratio) ==
    IF SumRatio(rows) > 0 THEN RDiv(Int2Rat(ratio), Int2Rat(100)) ELSE Zero

InitScaleFactor(rows, ratio) ==
    LET total_holdings == SumRatio(rows)
    IN  IF total_holdings > 0
        THEN RDiv(Int2Rat(ratio), Int2Rat(total_holdings))
        ELSE Zero

-----------------------------------------------------------------------------
(* calculate_stock_return *)

\* Faulty variant: the test for None is left out.
calculate_stock_return_NoNoneCheck(pcd, stock_code, current_price) ==
    LET prev_close == Get(pcd, stock_code, None)
    IN  IF prev_close = Some(0)
        THEN Zero
        ELSE RMul(RDiv(RSub(Num(current_price), Num(prev_close)), Num(prev_close)),
                  Int2Rat(100))

\* Faulty variant: the test for a zero previous close is left out.
calculate_stock_return_NoZeroCheck(pcd, stock_code, current_price) ==
    LET prev_close == Get(pcd, stock_code, None)
    IN  IF prev_close = None
        THEN Zero
        ELSE RMul(RDiv(RSub(Num(current_price), Num(prev_close)), Num(prev_close)),
                  Int2Rat(100))

\* Faulty variant: the change is divided by the current price.
calculate_stock_return_DivByCurrent(pcd, stock_code, current_price) ==
    LET prev_close == Get(pcd, stock_code, None)
    IN  IF prev_close = None \/ prev_close = Some(0)
        THEN Zero
        ELSE RMul(RDiv(RSub(Num(current_price), Num(prev_close)), Num(current_price)),
                  Int2Rat(100))

calculate_stock_return(pcd, stock_code, current_price) ==
    LET prev_close == Get(pcd, stock_code, None)
    IN  IF prev_close = None \/ prev_close = Some(0)
        THEN Zero
        ELSE RMul(RDiv(RSub(Num(current_price), Num(prev_close)), Num(prev_close)),
                  Int2Rat(100))

-----------------------------------------------------------------------------
(* calculate_fund_valuation *)

\* Faulty variant: only the last sample of each series is collected.
CollectTimes_LastSampleOnly(klines_map) ==
    {klines_map[c][Len(klines_map[c])].time :
        c \in {x \in DOMAIN klines_map : klines_map[x] # <<>>}}

\* step 1 (lines 40-43): the set of the times of all samples of all securities
CollectTimes(klines_map) ==
    UNION {{klines_map[c][i].time : i \in 1..Len(klines_map[c])} :
           c \in DOMAIN klines_map}

\* Faulty variant: the list is in descending order.
RECURSIVE Sorted_Descending(_)
Sorted_Descending(s) ==
    IF s = {} THEN <<>>
    ELSE LET m == CHOOSE x \in s : \A y \in s : x >= y
         IN  <<m>> \o Sorted_Descending(s \ {m})

\* sorted(list(s)) (line 45)
RECURSIVE Sorted(_)
Sorted(s) ==
    IF s = {} THEN <<>>
    ELSE LET m == CHOOSE x \in s : \A y \in s : x <= y
         IN  <<m>> \o Sorted(s \ {m})

\* Faulty variant: the first sample of a time is kept, later ones are dropped.
RECURSIVE PriceMap_FirstWins(_)
PriceMap_FirstWins(klines) ==
    IF klines = <<>> THEN <<>>
    ELSE LET k == Head(klines)
             after == PriceMap_FirstWins(Tail(klines))
         IN  [t \in DOMAIN after \cup {k.time} |->
                 IF t = k.time THEN k.price ELSE after[t]]

\* lines 50-55: price_map[kline['time']] = kline['price'] over the series in
\* order, so a later sample with the same time overwrites an earlier one
RECURSIVE PriceMap(_)
PriceMap(klines) ==
    IF klines = <<>> THEN <<>>
    ELSE LET n == Len(klines)
             before == PriceMap(SubSeq(klines, 1, n - 1))
             k == klines[n]
         IN  [t \in DOMAIN before \cup {k.time} |->
                 IF t = k.time THEN k.price ELSE before[t]]

\* Faulty variant: current_price is not carried from one time to the next.
RECURSIVE FilledPrices_NoCarry(_, _, _)
FilledPrices_NoCarry(price_map, times, current_price) ==
    IF times = <<>> THEN <<>>
    ELSE LET time_point == Head(times)
             cp == IF time_point \in DOMAIN price_map
                   THEN Some(price_map[time_point])
                   ELSE current_price
             rest == FilledPrices_NoCarry(price_map, Tail(times), current_price)
         IN  [t \in DOMAIN rest \cup {time_point} |->
                 IF t = time_point THEN cp ELSE rest[t]]

\* Faulty variant: only the times that have a sample get a price.
FilledPrices_SamplesOnly(price_map, times, current_price) ==
    [t \in DOMAIN price_map |-> Some(price_map[t])]

\* lines 58-64: walk the timeline in order carrying current_price, which starts
\* at prev_close_dict.get(stock_code, 0)
RECURSIVE FilledPrices(_, _, _)
FilledPrices(price_map, times, current_price) ==
    IF times = <<>> THEN <<>>
    ELSE LET time_point == Head(times)
             cp == IF time_point \in DOMAIN price_map
                   THEN Some(price_map[time_point])
                   ELSE current_price
             rest == FilledPrices(price_map, Tail(times), cp)
         IN  [t \in DOMAIN rest \cup {time_point} |->
                 IF t = time_point THEN cp ELSE rest[t]]

\* Faulty variant: current_price starts at 0, not at the previous close.
StockPriceMap_StartZero(klines_map, pcd, times) ==
    [stock_code \in DOMAIN klines_map |->
        FilledPrices(PriceMap(klines_map[stock_code]), times, Some(0))]

\* step 2 (lines 48-66)
StockPriceMap(klines_map, pcd, times) ==
    [stock_code \in DOMAIN klines_map |->
        FilledPrices(PriceMap(klines_map[stock_code]), times,
                     Get(pcd, stock_code, Some(0)))]

\* line 78: stock_price_map.get(stock_code, {}).get(time_point, 0)
PriceAt(spm, stock_code, time_point) ==
    Get(Get(spm, stock_code, <<>>), time_point, Some(0))

\* Faulty variant: weighted_return is assigned, not added to.
WeightedReturn_Overwrite(rows, pcd, sf, spm, time_point) ==
    IF rows = <<>> THEN Zero
    ELSE LET row == rows[Len(rows)]
             current_price == PriceAt(spm, row.code, time_point)
             stock_return == calculate_stock_return(pcd, row.code, current_price)
         IN  RDiv(RMul(RMul(stock_return, Int2Rat(row.ratio)), sf), Int2Rat(100))

\* lines 71-84: the loop over the holdings rows for one time point
RECURSIVE WeightedReturn(_, _, _, _, _)
WeightedReturn(rows, pcd, sf, spm, time_point) ==
    IF rows = <<>> THEN Zero
    ELSE LET n == Len(rows)
             row == rows[n]
             current_price == PriceAt(spm, row.code, time_point)
             stock_return == calculate_stock_return(pcd, row.code, current_price)
         IN  RAdd(WeightedReturn(SubSeq(rows, 1, n - 1), pcd, sf, spm, time_point),
                  RDiv(RMul(RMul(stock_return, Int2Rat(row.ratio)), sf),
                       Int2Rat(100)))

\* Faulty variant: the loop also runs over the securities of the price map
\* that have no holdings row, each with the weight 40.
RECURSIVE QuotedRows(_, _)
QuotedRows(rows, codes) ==
    IF codes = {} THEN rows
    ELSE LET c == CHOOSE x \in codes : TRUE
         IN  QuotedRows(IF \E i \in DOMAIN rows : rows[i].code = c THEN rows
                        ELSE Append(rows, [code |-> c, ratio |-> 40]),
                        codes \ {c})

ValuationResult_QuotedToo(rows, pcd, sf, spm, times) ==
    [i \in 1..Len(times) |->
        [time |-> times[i],
         valuation_change |->
             Round4(WeightedReturn(QuotedRows(rows, DOMAIN spm), pcd, sf, spm,
                                   times[i]))]]

\* Faulty variant: with no holdings rows nothing is emitted.
ValuationResult_EmptyOnNoRows(rows, pcd, sf, spm, times) ==
    IF rows = <<>> THEN <<>>
    ELSE [i \in 1..Len(times) |->
            [time |-> times[i],
             valuation_change |->
                 Round4(WeightedReturn(rows, pcd, sf, spm, times[i]))]]

\* step 3 (lines 69-91)
ValuationResult(rows, pcd, sf, spm, times) ==
    [i \in 1..Len(times) |->
        [time |-> times[i],
         valuation_change |-> Round4(WeightedReturn(rows, pcd, sf, spm, times[i]))]]

-----------------------------------------------------------------------------
(* get_summary_stats *)

\* a < b for two numbers
RLess(a, b) == a[1] * b[2] < b[1] * a[2]

\* max(changes): the scan keeps the running maximum and takes an item only
\* when it is greater
RECURSIVE MaxOf(_)
MaxOf(changes) ==
    LET n == Len(changes)
    IN  IF n = 1 THEN changes[1]
        ELSE LET m == MaxOf(SubSeq(changes, 1, n - 1))
             IN  IF RLess(m, changes[n]) THEN changes[n] ELSE m

\* min(changes)
RECURSIVE MinOf(_)
MinOf(changes) ==
    LET n == Len(changes)
    IN  IF n = 1 THEN changes[1]
        ELSE LET m == MinOf(SubSeq(changes, 1, n - 1))
             IN  IF RLess(changes[n], m) THEN changes[n] ELSE m

\* changes.index(x) from position i on: the first position that holds x
RECURSIVE IndexFrom(_, _, _)
IndexFrom(changes, x, i) ==
    IF changes[i] = x THEN i ELSE IndexFrom(changes, x, i + 1)

\* Faulty variant: the index of the last element equal to x.
RECURSIVE Index_Last(_, _)
Index_Last(changes, x) ==
    IF changes[Len(changes)] = x THEN Len(changes)
    ELSE Index_Last(SubSeq(changes, 1, Len(changes) - 1), x)

Index(changes, x) == IndexFrom(changes, x, 1)

\* The returned dict: <<>> for {} (lines 99-100), else the five entries
\* (lines 102-110).
\* Faulty variant: current is the first value of the series.
get_summary_stats_CurrentFirst(vd) ==
    IF vd = <<>> THEN <<>>
    ELSE LET changes == [i \in DOMAIN vd |-> vd[i].valuation_change]
         IN  [current |-> changes[1],
              max |-> MaxOf(changes),
              min |-> MinOf(changes),
              max_time |-> vd[Index(changes, MaxOf(changes))].time,
              min_time |-> vd[Index(changes, MinOf(changes))].time]

\* Faulty variant: max_time and min_time are exchanged.
get_summary_stats_TimesSwapped(vd) ==
    IF vd = <<>> THEN <<>>
    ELSE LET changes == [i \in DOMAIN vd |-> vd[i].valuation_change]
         IN  [current |-> changes[Len(changes)],
              max |-> MaxOf(changes),
              min |-> MinOf(changes),
              max_time |-> vd[Index(changes, MinOf(changes))].time,
              min_time |-> vd[Index(changes, MaxOf(changes))].time]

\* Faulty variant: without the test of lines 99-100 the conditional
\* expressions of lines 105-109 take their defaults for an empty series.
get_summary_stats_NoEmptyCheck(vd) ==
    LET changes == [i \in DOMAIN vd |-> vd[i].valuation_change]
    IN  IF changes = <<>>
        THEN [current |-> Zero, max |-> Zero, min |-> Zero,
              max_time |-> "", min_time |-> ""]
        ELSE [current |-> changes[Len(changes)],
              max |-> MaxOf(changes),
              min |-> MinOf(changes),
              max_time |-> vd[Index(changes, MaxOf(changes))].time,
              min_time |-> vd[Index(changes, MinOf(changes))].time]

get_summary_stats(vd) ==
    IF vd = <<>> THEN <<>>
    ELSE LET changes == [i \in DOMAIN vd |-> vd[i].valuation_change]
         IN  [current  |-> changes[Len(changes)],
              max      |-> MaxOf(changes),
              min      |-> MinOf(changes),
              max_time |-> vd[Index(changes, MaxOf(changes))].time,
              min_time |-> vd[Index(changes, MinOf(changes))].time]

-----------------------------------------------------------------------------
(* Inputs *)

SeqsUpTo(S, n) == UNION {[1..k -> S] : k \in 0..n}

Rows == [code : Stocks, ratio : Weights]
Klines == [time : Times, price : Prices]

\* dicts over some of the stocks
Dicts(V) == UNION {[D -> V] : D \in SUBSET Stocks}

PrevCloseDicts(closes) == Dicts({None} \cup {Some(p) : p \in closes})

\* the number of samples of an intraday map whose series have the lengths len
RECURSIVE Total(_, _)
Total(D, len) ==
    IF D = {} THEN 0
    ELSE LET c == CHOOSE x \in D : TRUE
         IN  len[c] + Total(D \ {c}, len)

\* the intraday maps with key set D whose series have the lengths len
RECURSIVE SeriesMaps(_, _)
SeriesMaps(D, len) ==
    IF D = {} THEN {<<>>}
    ELSE LET c == CHOOSE x \in D : TRUE
         IN  {m @@ (c :> s) : m \in SeriesMaps(D \ {c}, len),
                              s \in [1..len[c] -> Klines]}

Min(a, b) == IF a <= b THEN a ELSE b

-----------------------------------------------------------------------------
(* The state machine *)

\* The state after FundValuationCalculator(holdings_data, prev_close_dict,
\* stock_position_ratio), with an intraday map in hand: at most MaxHoldings
\* rows, at most MaxSamples samples, at most MaxInput rows and samples together.
Init ==
    /\ prev_close_dict \in PrevCloseDicts(PrevCloses)
    /\ stock_position_ratio \in Ratios
    /\ \E D \in SUBSET Stocks :
         \E len \in [D -> 0..MaxSamples] :
           /\ Total(D, len) <= MaxSamples
           /\ intraday_klines \in SeriesMaps(D, len)
           /\ \E h \in 0..Min(MaxHoldings, MaxInput - Total(D, len)) :
                holdings_data \in [1..h -> Rows]
    /\ scale_factor = InitScaleFactor(holdings_data, stock_position_ratio)
    /\ all_times = <<>>
    /\ stock_price_map = <<>>
    /\ result = <<>>
    /\ ret_call = <<>>
    /\ valuation_data = <<>>
    /\ stats = <<>>
    /\ pc = "ready"
    /\ ServicesIdle

\* Faulty variant: the last price read for a security (last_price, lines 51
\* and 55) is stored back into the previous-close map of the instance.
CalculateFundValuation_StoresLastPrice ==
    /\ pc = "ready"
    /\ all_times' = Sorted(CollectTimes(intraday_klines))
    /\ stock_price_map' = StockPriceMap(intraday_klines, prev_close_dict, all_times')
    /\ result' = ValuationResult(holdings_data, prev_close_dict, scale_factor,
                                 stock_price_map', all_times')
    /\ prev_close_dict' =
          [c \in DOMAIN prev_close_dict \cup DOMAIN intraday_klines |->
              IF c \in DOMAIN intraday_klines /\ intraday_klines[c] # <<>>
              THEN Some(intraday_klines[c][Len(intraday_klines[c])].price)
              ELSE Get(prev_close_dict, c, Some(0))]
    /\ pc' = "valued"
    /\ UNCHANGED services
    /\ UNCHANGED <<holdings_data, stock_position_ratio, scale_factor,
                   intraday_klines, ret_call, valuation_data, stats>>

CalculateFundValuation ==
    /\ pc = "ready"
    /\ all_times' = Sorted(CollectTimes(intraday_klines))
    /\ stock_price_map' = StockPriceMap(intraday_klines, prev_close_dict, all_times')
    /\ result' = ValuationResult(holdings_data, prev_close_dict, scale_factor,
                                 stock_price_map', all_times')
    /\ pc' = "valued"
    /\ UNCHANGED services
    /\ UNCHANGED <<instance, intraday_klines, ret_call, valuation_data, stats>>

Next == CalculateFundValuation

Spec == Init /\ [][Next]_vars

\* A calculator whose calculate_stock_return is called directly: any previous
\* close map (negative closes included), any security, any current price.
InitReturn ==
    /\ prev_close_dict \in PrevCloseDicts(ReturnCloses)
    /\ stock_position_ratio \in Ratios
    /\ holdings_data = <<>>
    /\ scale_factor = InitScaleFactor(holdings_data, stock_position_ratio)
    /\ intraday_klines = <<>>
    /\ all_times = <<>>
    /\ stock_price_map = <<>>
    /\ result = <<>>
    /\ ret_call = <<>>
    /\ valuation_data = <<>>
    /\ stats = <<>>
    /\ pc = "ready"
    /\ ServicesIdle

CalculateStockReturn(stock_code, current_price) ==
    /\ pc = "ready"
    /\ ret_call' = <<stock_code, current_price,
                     calculate_stock_return(prev_close_dict, stock_code,
                                            Some(current_price))>>
    /\ pc' = "returned"
    /\ UNCHANGED services
    /\ UNCHANGED <<instance, intraday_klines, all_times, stock_price_map, result,
                   valuation_data, stats>>

NextReturn == \E c \in Stocks, p \in ReturnPrices : CalculateStockReturn(c, p)

SpecReturn == InitReturn /\ [][NextReturn]_vars

\* Faulty variant: the last point is taken off the series of the caller
\* (changes.pop() on the list itself instead of changes[-1] on a copy).
GetSummaryStats_PopsLast(vd) ==
    /\ valuation_data' = vd
    /\ stats' = get_summary_stats(vd)
    /\ result' = IF result = <<>> THEN <<>> ELSE SubSeq(result, 1, Len(result) - 1)
    /\ pc' = "summarized"
    /\ UNCHANGED services
    /\ UNCHANGED <<instance, intraday_klines, all_times, stock_price_map, ret_call>>

\* get_summary_stats(vd)
GetSummaryStats(vd) ==
    /\ valuation_data' = vd
    /\ stats' = get_summary_stats(vd)
    /\ pc' = "summarized"
    /\ UNCHANGED services
    /\ UNCHANGED <<instance, intraday_klines, all_times, stock_price_map, result,
                   ret_call>>

\* The series of up to MaxPoints points at the times 1, 2, ...
ValuationSeries ==
    UNION {{[i \in 1..n |-> [time |-> i, valuation_change |-> Int2Rat(v[i])]] :
                v \in [1..n -> StatValues]} : n \in 0..MaxPoints}

\* A calculator whose get_summary_stats is called directly, on any series.
InitStats ==
    /\ prev_close_dict = <<>>
    /\ stock_position_ratio \in Ratios
    /\ holdings_data = <<>>
    /\ scale_factor = InitScaleFactor(holdings_data, stock_position_ratio)
    /\ intraday_klines = <<>>
    /\ all_times = <<>>
    /\ stock_price_map = <<>>
    /\ result = <<>>
    /\ ret_call = <<>>
    /\ valuation_data = <<>>
    /\ stats = <<>>
    /\ pc = "ready"
    /\ ServicesIdle

NextStats == pc = "ready" /\ \E vd \in ValuationSeries : GetSummaryStats(vd)

SpecStats == InitStats /\ [][NextStats]_vars

\* The sequence of app.py lines 122-126: construction, the valuation, then the
\* statistics of the valuation's result.
SummarizeResult == pc = "valued" /\ GetSummaryStats(result)

NextPipeline == CalculateFundValuation \/ SummarizeResult

SpecPipeline == Init /\ [][NextPipeline]_vars

\* One instance on which the three methods are called again and again, in any
\* order: at most MaxCallInput rows and samples together.
InitCalls ==
    /\ prev_close_dict \in PrevCloseDicts(CallCloses)
    /\ stock_position_ratio \in Ratios
    /\ \E D \in SUBSET Stocks :
         \E len \in [D -> 0..MaxCallInput] :
           /\ Total(D, len) <= MaxCallInput
           /\ intraday_klines \in SeriesMaps(D, len)
           /\ \E h \in 0..(MaxCallInput - Total(D, len)) :
                holdings_data \in [1..h -> Rows]
    /\ scale_factor = InitScaleFactor(holdings_data, stock_position_ratio)
    /\ all_times = <<>>
    /\ stock_price_map = <<>>
    /\ result = <<>>
    /\ ret_call = <<>>
    /\ valuation_data = <<>>
    /\ stats = <<>>
    /\ pc = "ready"
    /\ ServicesIdle

\* a call has returned and the caller goes on to the next call
CallAgain ==
    /\ pc # "ready"
    /\ pc' = "ready"
    /\ UNCHANGED services
    /\ UNCHANGED <<instance, intraday_klines, all_times, stock_price_map, result,
                   ret_call, valuation_data, stats>>

NextCalls ==
    \/ CalculateFundValuation
    \/ \E c \in Stocks, p \in Prices : CalculateStockReturn(c, p)
    \/ pc = "ready" /\ GetSummaryStats(result)
    \/ CallAgain

SpecCalls == InitCalls /\ [][NextCalls]_vars

-----------------------------------------------------------------------------
(* What the claims speak of, read off the inputs and the outcome *)

Valued == pc = "valued"

\* security c has a sample at time t
HasSample(c, t) ==
    \E i \in DOMAIN intraday_klines[c] : intraday_klines[c][i].time = t

\* the times of all samples of all securities of the intraday map
InputTimes ==
    {t \in Times : \E c \in DOMAIN intraday_klines : HasSample(c, t)}

OutputTimes == {result[k].time : k \in DOMAIN result}

\* the price of the sample of c at time t that comes last in its series
LastPriceAt(c, t) ==
    LET s == intraday_klines[c]
        i == CHOOSE i \in DOMAIN s :
                 s[i].time = t /\ \A j \in DOMAIN s : j > i => s[j].time # t
    IN  s[i].price

\* the price the valuation uses for security c at time t, and the return it
\* computes from it
PriceUsed(c, t) == PriceAt(stock_price_map, c, t)
ReturnUsed(c, t) == calculate_stock_return(prev_close_dict, c, PriceUsed(c, t))

\* what holdings row i adds to the point at time t
Contribution(i, t) ==
    RDiv(RMul(RMul(ReturnUsed(holdings_data[i].code, t),
                   Int2Rat(holdings_data[i].ratio)), scale_factor),
         Int2Rat(100))

\* the previous close of c is missing: no key, or a null value
PrevCloseMissing(c) ==
    c \notin DOMAIN prev_close_dict \/ prev_close_dict[c] = None

\* C1: the timestamps of the output are exactly the timestamps of the samples
\* of the intraday map: none missing, none fabricated.
C1_TimelineComplete == Valued => OutputTimes = InputTimes

C1_Witness ==
    /\ Valued
    /\ DOMAIN intraday_klines = Stocks
    /\ \E t \in Times : HasSample("A", t) /\ ~HasSample("B", t)
    /\ \E t \in Times : HasSample("B", t) /\ ~HasSample("A", t)
    /\ OutputTimes = InputTimes

\* C2: a holding whose security has no key in the intraday map contributes a
\* return of 0.0 to every output point, whatever its previous close and weight.
C2_AbsentSecurityReturnsZero ==
    Valued =>
        \A i \in DOMAIN holdings_data : \A t \in OutputTimes :
            holdings_data[i].code \notin DOMAIN intraday_klines
                => ReturnUsed(holdings_data[i].code, t) = Zero

\* C4: a security whose previous close is missing (no key, or null) adds
\* exactly 0.0 to every output point, whatever its weight and its samples: its
\* rows add zero, and the points are those of the table without its rows.
HasPrevClose(row) == ~PrevCloseMissing(row.code)

C4_MissingPrevCloseContributesZero ==
    Valued =>
        /\ \A i \in DOMAIN holdings_data : \A t \in OutputTimes :
               PrevCloseMissing(holdings_data[i].code) => Contribution(i, t) = Zero
        /\ result = ValuationResult(SelectSeq(holdings_data, HasPrevClose),
                                    prev_close_dict, scale_factor,
                                    stock_price_map, all_times)

C4_Witness ==
    /\ Valued
    /\ \E i \in DOMAIN holdings_data :
          /\ PrevCloseMissing(holdings_data[i].code)
          /\ holdings_data[i].ratio > 0
          /\ holdings_data[i].code \in DOMAIN intraday_klines
          /\ intraday_klines[holdings_data[i].code] # <<>>
    /\ \E i \in DOMAIN holdings_data :
          /\ ~PrevCloseMissing(holdings_data[i].code)
          /\ \E t \in OutputTimes : Contribution(i, t) # Zero

\* C5: a security with samples at t1 and t3 and none in between, at a time t2
\* of the timeline with t1 < t2 < t3, is priced at t2 with its sample at t1.
C5_ForwardFill ==
    Valued =>
        \A c \in DOMAIN intraday_klines : \A t1, t2, t3 \in Times :
            ( /\ t1 < t2 /\ t2 < t3
              /\ HasSample(c, t1) /\ HasSample(c, t3)
              /\ \A u \in Times : (t1 < u /\ u <= t2) => ~HasSample(c, u)
              /\ t2 \in OutputTimes )
            => PriceUsed(c, t2) = Some(LastPriceAt(c, t1))

C5_Witness ==
    /\ Valued
    /\ "A" \in DOMAIN intraday_klines
    /\ HasSample("A", 1) /\ ~HasSample("A", 2) /\ HasSample("A", 3)
    /\ 2 \in OutputTimes
    /\ LastPriceAt("A", 1) # LastPriceAt("A", 3)
    /\ PriceUsed("A", 2) = Some(LastPriceAt("A", 1))

\* C6: before a security's first sample its price is its previous close and
\* its return 0.0; at the first time of the timeline its price is its sample
\* there if it has one, otherwise its previous close.
NoSampleUpTo(c, t) == \A u \in Times : u <= t => ~HasSample(c, u)

FirstTime == CHOOSE t \in InputTimes : \A u \in InputTimes : t <= u

C6_PrevCloseBeforeFirstSample ==
    Valued =>
        \A c \in DOMAIN intraday_klines :
            /\ \A t \in OutputTimes :
                 (intraday_klines[c] # <<>> /\ NoSampleUpTo(c, t)) =>
                     /\ c \in DOMAIN prev_close_dict
                            => PriceUsed(c, t) = prev_close_dict[c]
                     /\ ReturnUsed(c, t) = Zero
            /\ InputTimes # {} =>
                 /\ HasSample(c, FirstTime)
                        => PriceUsed(c, FirstTime) = Some(LastPriceAt(c, FirstTime))
                 /\ (~HasSample(c, FirstTime) /\ c \in DOMAIN prev_close_dict)
                        => PriceUsed(c, FirstTime) = prev_close_dict[c]

C6_Witness ==
    /\ Valued
    /\ "A" \in DOMAIN intraday_klines /\ "B" \in DOMAIN intraday_klines
    /\ HasSample("B", 1) /\ ~HasSample("A", 1) /\ HasSample("A", 2)
    /\ "A" \in DOMAIN prev_close_dict /\ prev_close_dict["A"] = Some(10)
    /\ PriceUsed("A", 1) = Some(10)
    /\ PriceUsed("B", 1) = Some(LastPriceAt("B", 1))

\* C7: a security in the intraday map with an empty series is priced at its
\* previous close at every time of the timeline and adds 0.0 to every point;
\* with no previous close its price is 0 and its return still 0.0.
C7_EmptySeriesAtPrevClose ==
    Valued =>
        \A c \in DOMAIN intraday_klines :
            intraday_klines[c] = <<>> =>
                \A t \in OutputTimes :
                    /\ c \in DOMAIN prev_close_dict
                           => PriceUsed(c, t) = prev_close_dict[c]
                    /\ c \notin DOMAIN prev_close_dict
                           => PriceUsed(c, t) = Some(0)
                    /\ ReturnUsed(c, t) = Zero
                    /\ \A i \in DOMAIN holdings_data :
                           holdings_data[i].code = c => Contribution(i, t) = Zero

C7_Witness ==
    /\ Valued
    /\ "A" \in DOMAIN intraday_klines /\ intraday_klines["A"] = <<>>
    /\ "A" \in DOMAIN prev_close_dict /\ prev_close_dict["A"] = Some(10)
    /\ \E i \in DOMAIN holdings_data :
          holdings_data[i].code = "A" /\ holdings_data[i].ratio > 0
    /\ \E t \in OutputTimes : PriceUsed("A", t) = Some(10)

\* C8: the value of every output point is the sum over the holdings rows of
\* calculate_stock_return(security, price at t) * weight * scale_factor / 100,
\* rounded to 4 decimals; the scenario of the specification gives (t1, 2.0).
RECURSIVE SumContributions(_, _)
SumContributions(I, t) ==
    IF I = {} THEN Zero
    ELSE LET i == CHOOSE x \in I : TRUE
         IN  RAdd(Contribution(i, t), SumContributions(I \ {i}, t))

\* v is x rounded to 4 decimals: a multiple of 1/10000 at most 1/20000 from x
IsRounded4(v, x) ==
    /\ ~IsError(v) /\ ~IsError(x)
    /\ 10000 % v[2] = 0
    /\ 20000 * Abs(v[1] * x[2] - x[1] * v[2]) <= v[2] * x[2]

Scenario ==
    /\ holdings_data = <<[code |-> "A", ratio |-> 60], [code |-> "B", ratio |-> 40]>>
    /\ prev_close_dict = [c \in Stocks |-> IF c = "A" THEN Some(10) ELSE Some(20)]
    /\ stock_position_ratio = 50
    /\ intraday_klines = [c \in Stocks |->
            IF c = "A" THEN <<[time |-> 1, price |-> 11]>>
                       ELSE <<[time |-> 1, price |-> 19]>>]

C8_WeightedSum ==
    Valued =>
        /\ \A k \in DOMAIN result :
               IsRounded4(result[k].valuation_change,
                          SumContributions(DOMAIN holdings_data, result[k].time))
        /\ Scenario => result = <<[time |-> 1, valuation_change |-> <<2, 1>>]>>

C8_Witness ==
    /\ Valued
    /\ Scenario
    /\ result = <<[time |-> 1, valuation_change |-> <<2, 1>>]>>

\* C10: scale_factor is stock_position_ratio divided by the sum of the holding
\* weights when the sum is not zero and 0 when it is zero; construction never
\* divides by zero.
RECURSIVE TotalWeight(_)
TotalWeight(I) ==
    IF I = {} THEN 0
    ELSE LET i == CHOOSE x \in I : TRUE
         IN  holdings_data[i].ratio + TotalWeight(I \ {i})

C10_ScaleFactor ==
    LET total == TotalWeight(DOMAIN holdings_data)
    IN  /\ ~IsError(scale_factor)
        /\ total # 0 => scale_factor[1] * total = stock_position_ratio * scale_factor[2]
        /\ total = 0 => scale_factor = Zero

C10_Witness ==
    /\ holdings_data # <<>>
    /\ TotalWeight(DOMAIN holdings_data) = 0
    /\ scale_factor = Zero

\* C11: when the holding weights of a non-empty table add up to zero, every
\* output point is 0.0, whatever the prices and the position ratio.
AllPointsZero == \A k \in DOMAIN result : result[k].valuation_change = Zero

C11_ZeroTotalWeightGivesZero ==
    (Valued /\ holdings_data # <<>> /\ TotalWeight(DOMAIN holdings_data) = 0)
        => AllPointsZero

C11_Witness ==
    /\ Valued
    /\ holdings_data # <<>>
    /\ TotalWeight(DOMAIN holdings_data) = 0
    /\ result # <<>>
    /\ \E i \in DOMAIN holdings_data : \E t \in OutputTimes :
          ReturnUsed(holdings_data[i].code, t) # Zero
    /\ AllPointsZero

\* C12: with an empty holdings table there is still one point for each time of
\* the intraday map, and every point is 0.0.
C12_EmptyHoldingsGiveZero ==
    (Valued /\ holdings_data = <<>>)
        => /\ OutputTimes = InputTimes
           /\ Len(result) = Cardinality(InputTimes)
           /\ AllPointsZero

C12_Witness ==
    /\ Valued
    /\ holdings_data = <<>>
    /\ Cardinality(InputTimes) >= 2
    /\ Len(result) = Cardinality(InputTimes)

\* C13: with the position ratio, the previous closes and the intraday map
\* fixed, multiplying every holding weight by the same k > 0 leaves every
\* output value unchanged.
ScaleBy == {2, 3}

Scaled(rows, k) ==
    [i \in DOMAIN rows |-> [code |-> rows[i].code, ratio |-> k * rows[i].ratio]]

ValuationOf(rows) ==
    LET times == Sorted(CollectTimes(intraday_klines))
    IN  ValuationResult(rows, prev_close_dict,
                        InitScaleFactor(rows, stock_position_ratio),
                        StockPriceMap(intraday_klines, prev_close_dict, times),
                        times)

C14_StrictlyAscending ==
    Valued =>
        /\ \A i, j \in DOMAIN result : i < j => result[i].time < result[j].time
        /\ Len(result) = Cardinality(InputTimes)
        /\ OutputTimes = InputTimes

C14_Witness ==
    /\ Valued
    /\ "A" \in DOMAIN intraday_klines /\ "B" \in DOMAIN intraday_klines
    /\ Len(intraday_klines["A"]) = 2
    /\ intraday_klines["A"][1].time > intraday_klines["A"][2].time
    /\ Len(intraday_klines["B"]) = 1
    /\ intraday_klines["B"][1].time = intraday_klines["A"][1].time
    /\ Len(result) = 2
    /\ result[1].time < result[2].time

\* what a calculator built from rows returns for the intraday map klines_map
ValuationFor(rows, klines_map) ==
    LET times == Sorted(CollectTimes(klines_map))
    IN  ValuationResult(rows, prev_close_dict,
                        InitScaleFactor(rows, stock_position_ratio),
                        StockPriceMap(klines_map, prev_close_dict, times),
                        times)

\* the security of some holdings row
Held(c) == \E i \in DOMAIN holdings_data : holdings_data[i].code = c

\* C21: the holdings rows in another order (same securities, same weights)
\* give the same output.
Reversed(rows) == [i \in DOMAIN rows |-> rows[Len(rows) + 1 - i]]

UpTo(series, t) == SelectSeq(series, LAMBDA k : k.time <= t)

\* the securities all of whose samples are later than t
OnlyLater(klines_map, t) ==
    {c \in DOMAIN klines_map : klines_map[c] # <<>> /\ UpTo(klines_map[c], t) = <<>>}

\* the intraday map before the samples later than t were added; the
\* securities of D had no series then
Before(klines_map, t, D) ==
    [c \in DOMAIN klines_map \ D |-> UpTo(klines_map[c], t)]

C26_LaterSamplesDoNotMatter ==
    Valued => \A t \in Times : \A D \in SUBSET OnlyLater(intraday_klines, t) :
                 UpTo(result, t)
                     = UpTo(ValuationFor(holdings_data, Before(intraday_klines, t, D)), t)

\* The same with every security keeping its key, its series emptied if need be.
LaterSamplesDoNotMatterWithinSeries ==
    Valued => \A t \in Times :
                 UpTo(result, t)
                     = UpTo(ValuationFor(holdings_data, Before(intraday_klines, t, {})), t)

\* C27: a security of the intraday map that has no holdings row adds the times
\* of its samples to the output and changes no value: with any other prices
\* in its samples the output is the same.
Repriced(klines_map, c, p) ==
    [x \in DOMAIN klines_map |->
        IF x = c THEN [i \in DOMAIN klines_map[x] |->
                          [time |-> klines_map[x][i].time, price |-> p]]
        ELSE klines_map[x]]

C27_UnheldSecurityOnlyAddsTimes ==
    Valued => \A c \in DOMAIN intraday_klines :
                 ~Held(c) =>
                    /\ \A t \in Times : HasSample(c, t) => t \in OutputTimes
                    /\ \A p \in Prices :
                          ValuationFor(holdings_data,
                                       Repriced(intraday_klines, c, p)) = result

C27_Witness ==
    /\ Valued
    /\ Len(holdings_data) = 1
    /\ holdings_data[1].code = "A"
    /\ "A" \in DOMAIN intraday_klines /\ "B" \in DOMAIN intraday_klines
    /\ prev_close_dict = [c \in Stocks |-> Some(10)]
    /\ \E t \in OutputTimes :
          /\ HasSample("B", t)
          /\ ~HasSample("A", t)
          /\ \E u \in OutputTimes : u < t /\ HasSample("A", u)
          /\ \E k \in DOMAIN result :
                result[k].time = t /\ result[k].valuation_change # Zero

\* C28: when a series holds several samples with the same time, the output has
\* a single point for that time and the security is priced there with the
\* sample that comes last in the series.
Duplicated(c, t) ==
    \E i, j \in DOMAIN intraday_klines[c] :
        /\ i < j
        /\ intraday_klines[c][i].time = t
        /\ intraday_klines[c][j].time = t

C28_LastDuplicateWins ==
    Valued => \A c \in DOMAIN intraday_klines : \A t \in Times :
                 Duplicated(c, t) =>
                    /\ Cardinality({k \in DOMAIN result : result[k].time = t}) = 1
                    /\ PriceUsed(c, t) = Some(LastPriceAt(c, t))

C28_Witness ==
    /\ Valued
    /\ holdings_data = <<[code |-> "A", ratio |-> 60]>>
    /\ "A" \in DOMAIN prev_close_dict /\ prev_close_dict["A"] = Some(10)
    /\ "A" \in DOMAIN intraday_klines
    /\ intraday_klines["A"] = <<[time |-> 1, price |-> 11], [time |-> 1, price |-> 19]>>
    /\ Len(result) = 1
    /\ PriceUsed("A", 1) = Some(19)
    /\ result[1].valuation_change = Int2Rat(45)

-----------------------------------------------------------------------------
(* Direct calls of calculate_stock_return *)

Returned == pc = "returned"

\* C3: calculate_stock_return returns 0.0 whenever the previous close is less
\* than or equal to 0, a negative one included, as when it is missing.
C3_NonPositivePrevCloseReturnsZero ==
    Returned =>
        LET c == ret_call[1]
        IN  ( /\ c \in DOMAIN prev_close_dict
              /\ prev_close_dict[c] # None
              /\ Val(prev_close_dict[c]) <= 0 )
            => ret_call[3] = Zero

\* C9: with a previous close that is present and positive,
\* calculate_stock_return(security, p) is (p - close) / close * 100, and 0 when
\* p is the close.
C9_ReturnFormula ==
    Returned =>
        LET c == ret_call[1]
            p == ret_call[2]
            r == ret_call[3]
        IN  ( /\ c \in DOMAIN prev_close_dict
              /\ prev_close_dict[c] # None
              /\ Val(prev_close_dict[c]) > 0 )
            => LET close == Val(prev_close_dict[c])
               IN  /\ ~IsError(r)
                   /\ r[1] * close = (p - close) * 100 * r[2]
                   /\ p = close => r = Zero

C9_Witness ==
    /\ Returned
    /\ ret_call[1] \in DOMAIN prev_close_dict
    /\ prev_close_dict[ret_call[1]] = Some(10)
    /\ ret_call[2] = 11
    /\ ret_call[3] = <<10, 1>>

-----------------------------------------------------------------------------
(* Claims about get_summary_stats *)

Summarized == pc = "summarized"

\* The position of the first point of the series whose value is x.
FirstAt(x) ==
    CHOOSE i \in DOMAIN valuation_data :
        /\ valuation_data[i].valuation_change = x
        /\ \A j \in 1..(i - 1) : valuation_data[j].valuation_change # x

Series(values) ==
    [i \in DOMAIN values |-> [time |-> i, valuation_change |-> Int2Rat(values[i])]]

\* C15: when the maximum (minimum) value occurs at several points, max_time
\* (min_time) is the time of the first of them; for the series
\* (t1, 5.0), (t2, 9.0), (t3, 9.0), (t4, 2.0) the maximum is 9.0 at t2.
TiedSeries == Series(<<5, 9, 9, 2>>)

C15_FirstOccurrence ==
    (Summarized /\ valuation_data # <<>>)
        => /\ stats.max_time = valuation_data[FirstAt(stats.max)].time
           /\ stats.min_time = valuation_data[FirstAt(stats.min)].time
           /\ valuation_data = TiedSeries
                 => (stats.max = Int2Rat(9) /\ stats.max_time = 2)

C15_Witness ==
    /\ Summarized
    /\ valuation_data = TiedSeries
    /\ stats.max = Int2Rat(9)
    /\ stats.max_time = 2

\* C16: for a non-empty series, current is the value of the last point, max is
\* the largest value of the series and min the smallest.
Changes == {valuation_data[i].valuation_change : i \in DOMAIN valuation_data}

C16_CurrentMaxMin ==
    (Summarized /\ valuation_data # <<>>)
        => /\ stats.current = valuation_data[Len(valuation_data)].valuation_change
           /\ stats.max \in Changes
           /\ \A x \in Changes : ~RLess(stats.max, x)
           /\ stats.min \in Changes
           /\ \A x \in Changes : ~RLess(x, stats.min)

C16_Witness ==
    /\ Summarized
    /\ valuation_data = Series(<<9, -5, 5, 2>>)
    /\ stats.current = Int2Rat(2)
    /\ stats.max = Int2Rat(9)
    /\ stats.min = Int2Rat(-5)

\* C17: for an empty series get_summary_stats returns the empty dictionary and
\* raises no error.
C17_EmptySeriesGivesEmptyStats ==
    (Summarized /\ valuation_data = <<>>) => DOMAIN stats = {}

C17_Witness ==
    /\ Summarized
    /\ valuation_data = <<>>
    /\ DOMAIN stats = {}

\* C29: for a non-empty series min <= current <= max, max_time and min_time
\* are times of points of the series, and the value of the series at max_time
\* is max and at min_time is min.
ValueAt(t) ==
    {valuation_data[i].valuation_change :
        i \in {j \in DOMAIN valuation_data : valuation_data[j].time = t}}

C29_StatsConsistent ==
    (Summarized /\ valuation_data # <<>>)
        => /\ ~RLess(stats.current, stats.min)
           /\ ~RLess(stats.max, stats.current)
           /\ ValueAt(stats.max_time) = {stats.max}
           /\ ValueAt(stats.min_time) = {stats.min}

C29_Witness ==
    /\ Summarized
    /\ valuation_data = Series(<<-5, 9, 2>>)
    /\ stats.min_time = 1
    /\ stats.max_time = 2
    /\ RLess(stats.min, stats.current)
    /\ RLess(stats.current, stats.max)

-----------------------------------------------------------------------------
(* Claims about construction, valuation and summary in sequence *)

\* C18: construction, calculate_fund_valuation and get_summary_stats end
\* normally for every input: the scale factor, every value of the series and
\* every statistic is a number, never a raised error, whether the holdings are
\* empty, the weights add up to zero, a previous close is missing, null or
\* zero, a held security is absent from the intraday map or a series is empty.
C18_NoError ==
    /\ ~IsError(scale_factor)
    /\ pc \in {"valued", "summarized"}
          => /\ Len(result) = Cardinality(InputTimes)
             /\ \A k \in DOMAIN result : ~IsError(result[k].valuation_change)
    /\ Summarized
          => /\ valuation_data = result
             /\ IF result = <<>> THEN DOMAIN stats = {}
                ELSE /\ ~IsError(stats.current)
                     /\ ~IsError(stats.max)
                     /\ ~IsError(stats.min)
                     /\ stats.max_time \in InputTimes
                     /\ stats.min_time \in InputTimes

C18_Witness ==
    /\ Summarized
    /\ Len(holdings_data) = 2
    /\ holdings_data[1].code = "A" /\ holdings_data[2].code = "B"
    /\ "A" \in DOMAIN prev_close_dict /\ prev_close_dict["A"] = Some(0)
    /\ "A" \in DOMAIN intraday_klines /\ intraday_klines["A"] # <<>>
    /\ "B" \notin DOMAIN intraday_klines
    /\ "B" \in DOMAIN prev_close_dict /\ prev_close_dict["B"] = None
    /\ result # <<>>
    /\ ~IsError(stats.current)

-----------------------------------------------------------------------------
(* Claims about repeated calls on one instance *)

\* calculate_fund_valuation has returned on this instance before
ValuedBefore == DOMAIN stock_price_map # {} \/ result # <<>>

\* C19: a second call of calculate_fund_valuation on the same instance with the
\* same intraday map returns the same series as the call before it (same
\* times, same values, same order), whatever was called in between.
C19_RepeatedCallSameOutput ==
    [][(ValuedBefore /\ pc = "ready" /\ pc' = "valued") => result' = result]_vars

C19_Witness ==
    /\ Valued
    /\ DOMAIN stats # {}
    /\ ret_call = <<>>
    /\ result = valuation_data
    /\ \E k \in DOMAIN result : result[k].valuation_change # Zero

-----------------------------------------------------------------------------
(* src/utils/query_data_from_choice.py: rate_limit *)

\* no calculator is in use
CalculatorIdle ==
    /\ holdings_data = <<>>
    /\ prev_close_dict = <<>>
    /\ stock_position_ratio = 0
    /\ scale_factor = Zero
    /\ intraday_klines = <<>>
    /\ all_times = <<>>
    /\ stock_price_map = <<>>
    /\ result = <<>>
    /\ ret_call = <<>>
    /\ valuation_data = <<>>
    /\ stats = <<>>
    /\ pc = "ready"

\* lines 34-35: the calls of the last time_window seconds
Recent(cs, now, window) == SelectSeq(cs, LAMBDA call : now - call < window)

\* A function decorated with rate_limit(max_requests, time_window), not yet
\* called.
InitLimiter ==
    /\ CalculatorIdle
    /\ max_requests \in Limits
    /\ time_window \in Windows
    /\ clock = 0
    /\ calls = <<>>
    /\ executions = <<>>
    /\ CacheIdle
    /\ GeneratorIdle
    /\ BatchIdle
    /\ HandlerIdle

\* wrapper (lines 30-49): one call of the decorated function by the single
\* caller.  time.sleep(sleep_time) moves the clock; func runs after it.
Wrapper ==
    /\ Len(executions) < MaxCalls
    /\ LET now == clock
           recent == Recent(calls, now, time_window)
       IN  IF Len(recent) >= max_requests
           THEN LET sleep_time == time_window - (now - recent[1])
                IN  /\ clock' = IF sleep_time > 0 THEN now + sleep_time ELSE now
                    /\ calls' = <<now>>
           ELSE /\ clock' = now
                /\ calls' = Append(recent, now)
    /\ executions' = Append(executions, clock')
    /\ UNCHANGED <<max_requests, time_window>>
    /\ UNCHANGED <<calculator, cache, generator, batch, handler>>

\* time passes between two calls
Tick ==
    /\ clock < MaxClock
    /\ clock' = clock + 1
    /\ UNCHANGED <<max_requests, time_window, calls, executions>>
    /\ UNCHANGED <<calculator, cache, generator, batch, handler>>

NextLimiter == Wrapper \/ Tick

SpecLimiter == InitLimiter /\ [][NextLimiter]_vars

\* the executions of func in the time_window seconds that start at time s
ExecutedIn(s) ==
    {i \in DOMAIN executions : s <= executions[i] /\ executions[i] < s + time_window}

\* C22: in any interval of time_window seconds func is executed at most
\* max_requests times.
C22_AtMostMaxRequestsPerWindow ==
    \A s \in 0..(MaxClock + MaxCalls * time_window) :
        Cardinality(ExecutedIn(s)) <= max_requests

-----------------------------------------------------------------------------
(* src/fund_valuation_tracker/app.py: load_fund_list, resolve_init_code *)

\* a fund of fund_list.json: its code and, if present, its init_code
Funds == [code : FundCodes, init_code : {None} \cup {Some(c) : c \in FundCodes}]

\* the file is absent (None) or holds a list of up to two funds
FundListFiles == {None} \cup {Some(l) : l \in SeqsUpTo(Funds, 2)}

\* lines 37-40: {fund['code']: fund.get('init_code', fund['code']) for fund
\* in data}; a later fund with the same code overwrites an earlier one
RECURSIVE CodeToInit(_)
CodeToInit(funds) ==
    IF funds = <<>> THEN [c \in {} |-> c]
    ELSE LET n == Len(funds)
             before == CodeToInit(SubSeq(funds, 1, n - 1))
             fund == funds[n]
         IN  [c \in DOMAIN before \cup {fund.code} |->
                 IF c = fund.code
                 THEN IF fund.init_code = None THEN fund.code ELSE Val(fund.init_code)
                 ELSE before[c]]

\* The module as imported (lines 19-21), threads about to call load_fund_list.
InitCache ==
    /\ CalculatorIdle
    /\ LimiterIdle
    /\ GeneratorIdle
    /\ BatchIdle
    /\ HandlerIdle
    /\ fund_list_file \in FundListFiles
    /\ fund_list_cache = None
    /\ fund_code_to_init = CodeToInit(<<>>)
    /\ cache_lock = None
    /\ thread_pc = [t \in Threads |-> "call"]
    /\ data = [t \in Threads |-> <<>>]
    /\ returned = [t \in Threads |-> None]
    /\ seen = [t \in Threads |-> None]
    /\ readers = {}

Goto(t, label) == thread_pc' = [thread_pc EXCEPT ![t] = label]

\* lines 27-28: the test without the lock
CheckCache(t) ==
    /\ thread_pc[t] = "call"
    /\ IF fund_list_cache # None
       THEN /\ returned' = [returned EXCEPT ![t] = fund_list_cache]
            /\ Goto(t, "returned")
       ELSE /\ Goto(t, "acquire")
            /\ UNCHANGED returned
    /\ UNCHANGED <<fund_list_file, fund_list_cache, fund_code_to_init, cache_lock,
                   data, seen, readers>>
    /\ UNCHANGED <<calculator, limiter, generator, batch, handler>>

\* line 29: with _cache_lock
AcquireLock(t) ==
    /\ thread_pc[t] = "acquire"
    /\ cache_lock = None
    /\ cache_lock' = Some(t)
    /\ Goto(t, "recheck")
    /\ UNCHANGED <<fund_list_file, fund_list_cache, fund_code_to_init, data,
                   returned, seen, readers>>
    /\ UNCHANGED <<calculator, limiter, generator, batch, handler>>

\* Faulty variant: the test under the lock is left out.
CheckAgain_NoSecondCheck(t) ==
    /\ thread_pc[t] = "recheck"
    /\ Goto(t, "read")
    /\ UNCHANGED <<returned, cache_lock>>
    /\ UNCHANGED <<fund_list_file, fund_list_cache, fund_code_to_init, data, seen,
                   readers>>
    /\ UNCHANGED <<calculator, limiter, generator, batch, handler>>

\* lines 30-31: the test under the lock; the return leaves the with block and
\* releases the lock
CheckAgain(t) ==
    /\ thread_pc[t] = "recheck"
    /\ IF fund_list_cache # None
       THEN /\ returned' = [returned EXCEPT ![t] = fund_list_cache]
            /\ cache_lock' = None
            /\ Goto(t, "returned")
       ELSE /\ Goto(t, "read")
            /\ UNCHANGED <<returned, cache_lock>>
    /\ UNCHANGED <<fund_list_file, fund_list_cache, fund_code_to_init, data, seen,
                   readers>>
    /\ UNCHANGED <<calculator, limiter, generator, batch, handler>>

\* lines 32-36: data is [] unless the file exists and is read
ReadFile(t) ==
    /\ thread_pc[t] = "read"
    /\ IF fund_list_file = None
       THEN /\ data' = [data EXCEPT ![t] = <<>>]
            /\ UNCHANGED readers
       ELSE /\ data' = [data EXCEPT ![t] = Val(fund_list_file)]
            /\ readers' = readers \cup {t}
    /\ Goto(t, "build")
    /\ UNCHANGED <<fund_list_file, fund_list_cache, fund_code_to_init, cache_lock,
                   returned, seen>>
    /\ UNCHANGED <<calculator, limiter, generator, batch, handler>>

\* lines 37-40
BuildCodeToInit(t) ==
    /\ thread_pc[t] = "build"
    /\ fund_code_to_init' = CodeToInit(data[t])
    /\ Goto(t, "store")
    /\ UNCHANGED <<fund_list_file, fund_list_cache, cache_lock, data, returned,
                   seen, readers>>
    /\ UNCHANGED <<calculator, limiter, generator, batch, handler>>

\* line 41, and the end of the with block
StoreCache(t) ==
    /\ thread_pc[t] = "store"
    /\ fund_list_cache' = Some(data[t])
    /\ cache_lock' = None
    /\ Goto(t, "return")
    /\ UNCHANGED <<fund_list_file, fund_code_to_init, data, returned, seen,
                   readers>>
    /\ UNCHANGED <<calculator, limiter, generator, batch, handler>>

\* line 42: return _fund_list_cache
ReturnCache(t) ==
    /\ thread_pc[t] = "return"
    /\ returned' = [returned EXCEPT ![t] = fund_list_cache]
    /\ Goto(t, "returned")
    /\ UNCHANGED <<fund_list_file, fund_list_cache, fund_code_to_init, cache_lock,
                   data, seen, readers>>
    /\ UNCHANGED <<calculator, limiter, generator, batch, handler>>

\* resolve_init_code, lines 49-50: after load_fund_list() the caller reads
\* _fund_code_to_init
ReadCodeToInit(t) ==
    /\ thread_pc[t] = "returned"
    /\ seen' = [seen EXCEPT ![t] = Some(fund_code_to_init)]
    /\ Goto(t, "resolved")
    /\ UNCHANGED <<fund_list_file, fund_list_cache, fund_code_to_init, cache_lock,
                   data, returned, readers>>
    /\ UNCHANGED <<calculator, limiter, generator, batch, handler>>

NextCache ==
    \E t \in Threads :
        \/ CheckCache(t)
        \/ AcquireLock(t)
        \/ CheckAgain(t)
        \/ ReadFile(t)
        \/ BuildCodeToInit(t)
        \/ StoreCache(t)
        \/ ReturnCache(t)
        \/ ReadCodeToInit(t)

SpecCache == InitCache /\ [][NextCache]_vars

\* load_fund_list has returned to thread t
HasReturned(t) == thread_pc[t] \in {"returned", "resolved"}

-----------------------------------------------------------------------------
(* src/auto_report/llm_summary.py: generate_summary *)

\* Strings are sequences of characters, so that strip() has something to do.
Blank == " "
Texts == {<<>>, <<Blank, "u", "p", Blank>>, <<"u", "p">>}

\* str.strip()
RECURSIVE Strip(_)
Strip(text) ==
    IF text = <<>> THEN <<>>
    ELSE IF Head(text) = Blank THEN Strip(Tail(text))
    ELSE IF text[Len(text)] = Blank THEN Strip(SubSeq(text, 1, Len(text) - 1))
    ELSE text

\* What one call of client.chat.completions.create does: it raises, or it
\* returns a text.  A text is described by the JSON value it carries, if any
\* (kind "garbage": none; "list": a JSON list; "dict": a JSON object with the
\* keys overall and institutions, a missing overall being the empty string),
\* and by how the value is wrapped: bare, after a <think> block, inside a
\* Markdown fence, or with prose around it.
Wraps == {"plain", "think", "fence", "prose"}

Reply(raises, wrap, kind, overall, inst_is_dict, institutions) ==
    [raises |-> raises, wrap |-> wrap, kind |-> kind, overall |-> overall,
     inst_is_dict |-> inst_is_dict, institutions |-> institutions]

NoInstitutions == [k \in {} |-> <<>>]
SomeInstitutions == [k \in {"bank"} |-> <<Blank, "u", "p">>]

BadReplies ==
    {Reply(TRUE, "plain", "garbage", <<>>, TRUE, NoInstitutions),
     Reply(FALSE, "plain", "garbage", <<>>, TRUE, NoInstitutions),
     Reply(FALSE, "plain", "list", <<>>, TRUE, NoInstitutions),
     Reply(FALSE, "prose", "list", <<>>, TRUE, NoInstitutions),
     Reply(FALSE, "plain", "dict", <<>>, TRUE, SomeInstitutions),
     Reply(FALSE, "think", "dict", <<"u", "p">>, TRUE, NoInstitutions),
     Reply(FALSE, "fence", "dict", <<"u", "p">>, FALSE, NoInstitutions)}

GoodReplies ==
    {Reply(FALSE, w, "dict", <<Blank, "u", "p", Blank>>, TRUE, SomeInstitutions) :
        w \in Wraps}

Replies == BadReplies \cup GoodReplies

\* the outcome of a step that may raise
Raised(e) == [error |-> e, value |-> <<>>]
Value(v) == [error |-> "", value |-> <<v>>]

\* _extract_json (lines 76-107): the <think> block and the fence are removed
\* (lines 86-91), json.loads is tried (lines 94-97), then the first {...}
\* block (lines 100-105); a list in prose has no such block
_extract_json(raw) ==
    IF raw.kind = "garbage" \/ (raw.kind = "list" /\ raw.wrap = "prose")
    THEN Raised("ValueError")
    ELSE Value([kind |-> raw.kind, overall |-> raw.overall,
                inst_is_dict |-> raw.inst_is_dict,
                institutions |-> raw.institutions])

\* _validate_summary (lines 110-126)
_validate_summary(parsed) ==
    IF parsed.kind # "dict" THEN Raised("ValueError")
    ELSE IF parsed.overall = <<>> THEN Raised("ValueError")
    ELSE IF ~parsed.inst_is_dict \/ DOMAIN parsed.institutions = {}
    THEN Raised("ValueError")
    ELSE Value([overall |-> Strip(parsed.overall),
                institutions |-> [k \in DOMAIN parsed.institutions |->
                                     Strip(parsed.institutions[k])]])

\* the body of the try block (lines 151-162) for one reply
TryOnce(reply) ==
    IF reply.raises THEN Raised("APIError")
    ELSE LET parsed == _extract_json(reply)
         IN  IF parsed.error # "" THEN parsed
             ELSE _validate_summary(parsed.value[1])

\* generate_summary called with some max_retries, about to enter the loop
InitGenerator ==
    /\ CalculatorIdle
    /\ LimiterIdle
    /\ CacheIdle
    /\ BatchIdle
    /\ HandlerIdle
    /\ max_retries \in 0..MaxRetries
    /\ attempt = 0
    /\ replies = <<>>
    /\ last_error = None
    /\ summary = None
    /\ gen_pc = "loop"

\* Faulty variant: only ValueError is caught.
CallLLM_CatchesValueErrorOnly(reply) ==
    /\ gen_pc = "loop"
    /\ attempt < max_retries
    /\ attempt' = attempt + 1
    /\ replies' = Append(replies, reply)
    /\ LET outcome == TryOnce(reply)
       IN  IF outcome.error = ""
           THEN /\ summary' = Some(outcome.value[1])
                /\ gen_pc' = "returned"
                /\ UNCHANGED last_error
           ELSE IF outcome.error = "ValueError"
           THEN /\ last_error' = Some(outcome.error)
                /\ UNCHANGED <<summary, gen_pc>>
           ELSE /\ gen_pc' = "raised"
                /\ UNCHANGED <<summary, last_error>>
    /\ UNCHANGED max_retries
    /\ UNCHANGED <<calculator, limiter, cache, batch, handler>>

\* one pass of the loop (lines 149-168): the call, then either the return of
\* line 164 or the except clause of lines 166-168
CallLLM(reply) ==
    /\ gen_pc = "loop"
    /\ attempt < max_retries
    /\ attempt' = attempt + 1
    /\ replies' = Append(replies, reply)
    /\ LET outcome == TryOnce(reply)
       IN  IF outcome.error = ""
           THEN /\ summary' = Some(outcome.value[1])
                /\ gen_pc' = "returned"
                /\ UNCHANGED last_error
           ELSE /\ last_error' = Some(outcome.error)
                /\ UNCHANGED <<summary, gen_pc>>
    /\ UNCHANGED max_retries
    /\ UNCHANGED <<calculator, limiter, cache, batch, handler>>

\* the loop is over (lines 170-171): return None
GiveUp ==
    /\ gen_pc = "loop"
    /\ attempt >= max_retries
    /\ summary' = None
    /\ gen_pc' = "returned"
    /\ UNCHANGED <<max_retries, attempt, replies, last_error>>
    /\ UNCHANGED <<calculator, limiter, cache, batch, handler>>

NextGenerator == (\E reply \in Replies : CallLLM(reply)) \/ GiveUp

SpecGenerator == InitGenerator /\ [][NextGenerator]_vars

\* the text of a reply carries a JSON object with a non-empty overall and a
\* non-empty institutions object
Passes(reply) ==
    /\ ~reply.raises
    /\ reply.kind = "dict"
    /\ reply.overall # <<>>
    /\ reply.inst_is_dict
    /\ DOMAIN reply.institutions # {}

C24_WitnessAllFail ==
    /\ gen_pc = "returned"
    /\ max_retries = 2
    /\ Len(replies) = 2
    /\ summary = None

-----------------------------------------------------------------------------
(* src/fund_valuation_tracker/data_fetcher.py: batch_get_intraday_klines *)

\* What happens to one fetch: the response carries klines, the response
\* carries none (rc # 0 or no klines), the request or the parsing raises inside
\* get_stock_intraday_kline, or the future itself ends with an exception.
Outcomes == {"klines", "no_data", "request_error", "raised"}

\* the samples parsed from a response with klines (lines 70-82)
ParsedKlines(code) ==
    IF code = "A" THEN <<[time |-> 1, price |-> 11]>>
    ELSE <<[time |-> 1, price |-> 19], [time |-> 2, price |-> 11]>>

\* future.result() for get_stock_intraday_kline (lines 64-87): the except
\* clause of lines 84-86 turns every error of the request into []
get_stock_intraday_kline(code, outcome) ==
    IF outcome = "raised" THEN Raised("Exception")
    ELSE IF outcome = "klines" THEN Value(ParsedKlines(code))
    ELSE Value(<<>>)

\* batch_get_intraday_klines called with some codes, every fetch submitted
\* (lines 94-100) and none finished
InitBatch ==
    /\ CalculatorIdle
    /\ LimiterIdle
    /\ CacheIdle
    /\ GeneratorIdle
    /\ HandlerIdle
    /\ stock_codes \in SeqsUpTo(Stocks, MaxCodes)
    /\ futures = [i \in DOMAIN stock_codes |-> [state |-> "running", outcome |-> ""]]
    /\ batch_result = [c \in {} |-> <<>>]
    /\ batch_pc = "collecting"

\* a worker thread finishes the fetch of future i
Finish(i, outcome) ==
    /\ batch_pc = "collecting"
    /\ futures[i].state = "running"
    /\ futures' = [futures EXCEPT ![i] = [state |-> "done", outcome |-> outcome]]
    /\ UNCHANGED <<stock_codes, batch_result, batch_pc>>
    /\ UNCHANGED <<calculator, limiter, cache, generator, handler>>

\* result[stock_code] = value
SetItem(d, k, v) == [x \in DOMAIN d \cup {k} |-> IF x = k THEN v ELSE d[x]]

\* Faulty variant: a future that raised is skipped.
Collect_SkipsRaised(i) ==
    /\ batch_pc = "collecting"
    /\ futures[i].state = "done"
    /\ futures' = [futures EXCEPT ![i].state = "collected"]
    /\ LET stock_code == stock_codes[i]
           kline_data == get_stock_intraday_kline(stock_code, futures[i].outcome)
       IN  batch_result' = IF kline_data.error = ""
                           THEN SetItem(batch_result, stock_code, kline_data.value[1])
                           ELSE batch_result
    /\ UNCHANGED <<stock_codes, batch_pc>>
    /\ UNCHANGED <<calculator, limiter, cache, generator, handler>>

\* one pass of the loop over as_completed (lines 102-109) for a finished
\* future
Collect(i) ==
    /\ batch_pc = "collecting"
    /\ futures[i].state = "done"
    /\ futures' = [futures EXCEPT ![i].state = "collected"]
    /\ LET stock_code == stock_codes[i]
           kline_data == get_stock_intraday_kline(stock_code, futures[i].outcome)
       IN  batch_result' = IF kline_data.error = ""
                           THEN SetItem(batch_result, stock_code, kline_data.value[1])
                           ELSE SetItem(batch_result, stock_code, <<>>)
    /\ UNCHANGED <<stock_codes, batch_pc>>
    /\ UNCHANGED <<calculator, limiter, cache, generator, handler>>

\* every future has been handled: the executor is left and result returned
\* (line 111)
ReturnBatch ==
    /\ batch_pc = "collecting"
    /\ \A i \in DOMAIN futures : futures[i].state = "collected"
    /\ batch_pc' = "returned"
    /\ UNCHANGED <<stock_codes, futures, batch_result>>
    /\ UNCHANGED <<calculator, limiter, cache, generator, handler>>

NextBatch ==
    \/ \E i \in DOMAIN futures : \E outcome \in Outcomes : Finish(i, outcome)
    \/ \E i \in DOMAIN futures : Collect(i)
    \/ ReturnBatch

SpecBatch == InitBatch /\ [][NextBatch]_vars

\* the fetches of a code, and whether a fetch brought samples
FetchesOf(code) == {i \in DOMAIN stock_codes : stock_codes[i] = code}
Failed(i) == futures[i].outcome # "klines"

\* C25: the returned map has exactly one key for each requested code, in
\* whatever order the fetches finish; the value of a code is the list of one
\* of its fetches, the empty list when the fetch failed or raised.
C25_OneKeyPerCode ==
    batch_pc = "returned" =>
        /\ DOMAIN batch_result = {stock_codes[i] : i \in DOMAIN stock_codes}
        /\ \A code \in DOMAIN batch_result :
              /\ \E i \in FetchesOf(code) :
                    batch_result[code] = IF Failed(i) THEN <<>> ELSE ParsedKlines(code)
              /\ (\A i \in FetchesOf(code) : Failed(i)) => batch_result[code] = <<>>

C25_Witness ==
    /\ batch_pc = "returned"
    /\ stock_codes = <<"A", "B">>
    /\ futures[1].outcome = "raised"
    /\ futures[2].outcome = "klines"
    /\ batch_result["A"] = <<>>
    /\ batch_result["B"] = ParsedKlines("B")

-----------------------------------------------------------------------------
(* src/fund_valuation_tracker/app.py: get_valuation *)

\* request.get_json(): no JSON body (None), or a body whose fund_code is the
\* empty string, blanks, or a code
RequestBodies == {None, Some(<<>>), Some(<<Blank, Blank>>), Some(<<Blank, "F", "1">>)}

\* what the fetches of the handler may bring
HandlerHoldings ==
    {<<>>,
     <<[code |-> "A", ratio |-> 60]>>,
     <<[code |-> "A", ratio |-> 60], [code |-> "B", ratio |-> 40]>>,
     <<[code |-> "B", ratio |-> 0]>>}

CodesOf(rows) == {rows[i].code : i \in DOMAIN rows}

Unfetched ==
    [holdings |-> None, stock_position |-> None, prev_close_dict |-> None,
     intraday_klines |-> None]

\* A POST to /api/valuation has arrived; no calculator exists (pc = "none").
InitHandler ==
    /\ holdings_data = <<>>
    /\ prev_close_dict = <<>>
    /\ stock_position_ratio = 0
    /\ scale_factor = Zero
    /\ intraday_klines = <<>>
    /\ all_times = <<>>
    /\ stock_price_map = <<>>
    /\ result = <<>>
    /\ ret_call = <<>>
    /\ valuation_data = <<>>
    /\ stats = <<>>
    /\ pc = "none"
    /\ LimiterIdle
    /\ CacheIdle
    /\ GeneratorIdle
    /\ BatchIdle
    /\ request_body \in RequestBodies
    /\ handler_pc = "request"
    /\ handler_locals = Unfetched
    /\ trace = <<>>
    /\ response = None

Respond(status) ==
    /\ response' = Some(status)
    /\ handler_pc' = "done"

\* lines 89-93: a missing body makes data.get raise; an empty code is
\* answered with 400
ReadRequest ==
    /\ handler_pc = "request"
    /\ IF request_body = None
       THEN /\ trace' = Append(trace, "exception")
            /\ handler_pc' = "except"
            /\ UNCHANGED response
       ELSE IF Strip(Val(request_body)) = <<>>
       THEN /\ Respond(400)
            /\ UNCHANGED trace
       ELSE /\ handler_pc' = "holdings"
            /\ UNCHANGED <<trace, response>>
    /\ UNCHANGED <<request_body, handler_locals>>
    /\ UNCHANGED <<calculator, limiter, cache, generator, batch>>

\* Faulty variant: empty holdings are not answered with 404.
FetchHoldings_NoEmptyCheck(rows) ==
    /\ handler_pc = "holdings"
    /\ trace' = Append(trace, "holdings")
    /\ handler_locals' = [handler_locals EXCEPT !.holdings = Some(rows)]
    /\ handler_pc' = "position"
    /\ UNCHANGED response
    /\ UNCHANGED request_body
    /\ UNCHANGED <<calculator, limiter, cache, generator, batch>>

\* lines 96-105: the holdings are fetched; empty holdings are answered with 404
FetchHoldings(rows) ==
    /\ handler_pc = "holdings"
    /\ trace' = Append(trace, "holdings")
    /\ handler_locals' = [handler_locals EXCEPT !.holdings = Some(rows)]
    /\ IF rows = <<>>
       THEN Respond(404)
       ELSE /\ handler_pc' = "position"
            /\ UNCHANGED response
    /\ UNCHANGED request_body
    /\ UNCHANGED <<calculator, limiter, cache, generator, batch>>

\* line 108
FetchPosition(ratio) ==
    /\ handler_pc = "position"
    /\ trace' = Append(trace, "stock_position")
    /\ handler_locals' = [handler_locals EXCEPT !.stock_position = Some(ratio)]
    /\ handler_pc' = "prev_close"
    /\ UNCHANGED <<request_body, response>>
    /\ UNCHANGED <<calculator, limiter, cache, generator, batch>>

\* lines 111-115
FetchPrevClose(closes) ==
    /\ handler_pc = "prev_close"
    /\ trace' = Append(trace, "prev_close")
    /\ handler_locals' = [handler_locals EXCEPT !.prev_close_dict = Some(closes)]
    /\ handler_pc' = "klines"
    /\ UNCHANGED <<request_body, response>>
    /\ UNCHANGED <<calculator, limiter, cache, generator, batch>>

\* lines 118-119: one series for each code of the holdings
FetchKlines(klines_map) ==
    /\ handler_pc = "klines"
    /\ trace' = Append(trace, "intraday_klines")
    /\ handler_locals' = [handler_locals EXCEPT !.intraday_klines = Some(klines_map)]
    /\ handler_pc' = "calculator"
    /\ UNCHANGED <<request_body, response>>
    /\ UNCHANGED <<calculator, limiter, cache, generator, batch>>

\* line 122: FundValuationCalculator(holdings, prev_close_dict, stock_position)
Construct ==
    /\ handler_pc = "calculator"
    /\ holdings_data' = Val(handler_locals.holdings)
    /\ prev_close_dict' = Val(handler_locals.prev_close_dict)
    /\ stock_position_ratio' = Val(handler_locals.stock_position)
    /\ scale_factor' = InitScaleFactor(holdings_data', stock_position_ratio')
    /\ pc' = "ready"
    /\ handler_pc' = "valuation"
    /\ UNCHANGED <<intraday_klines, all_times, stock_price_map, result, ret_call,
                   valuation_data, stats>>
    /\ UNCHANGED <<request_body, handler_locals, trace, response>>
    /\ UNCHANGED <<limiter, cache, generator, batch>>

\* line 123: calculator.calculate_fund_valuation(intraday_klines)
Valuate ==
    /\ handler_pc = "valuation"
    /\ intraday_klines' = Val(handler_locals.intraday_klines)
    /\ all_times' = Sorted(CollectTimes(intraday_klines'))
    /\ stock_price_map' = StockPriceMap(intraday_klines', prev_close_dict, all_times')
    /\ result' = ValuationResult(holdings_data, prev_close_dict, scale_factor,
                                 stock_price_map', all_times')
    /\ pc' = "valued"
    /\ handler_pc' = "stats"
    /\ UNCHANGED <<instance, ret_call, valuation_data, stats>>
    /\ UNCHANGED <<request_body, handler_locals, trace, response>>
    /\ UNCHANGED <<limiter, cache, generator, batch>>

\* line 126: calculator.get_summary_stats(valuation_data)
Summarize ==
    /\ handler_pc = "stats"
    /\ valuation_data' = result
    /\ stats' = get_summary_stats(result)
    /\ pc' = "summarized"
    /\ handler_pc' = "respond"
    /\ UNCHANGED <<instance, intraday_klines, all_times, stock_price_map, result,
                   ret_call>>
    /\ UNCHANGED <<request_body, handler_locals, trace, response>>
    /\ UNCHANGED <<limiter, cache, generator, batch>>

\* lines 128-164: the details of the holdings and the answer
Answer ==
    /\ handler_pc = "respond"
    /\ Respond(200)
    /\ UNCHANGED <<request_body, handler_locals, trace>>
    /\ UNCHANGED <<calculator, limiter, cache, generator, batch>>

\* a step after the test of the fund code raises (a fetch fails, say)
RaiseException ==
    /\ handler_pc \in {"holdings", "position", "prev_close", "klines",
                       "calculator", "valuation", "stats", "respond"}
    /\ trace' = Append(trace, "exception")
    /\ handler_pc' = "except"
    /\ UNCHANGED <<request_body, handler_locals, response>>
    /\ UNCHANGED <<calculator, limiter, cache, generator, batch>>

\* lines 166-168: except Exception
HandleException ==
    /\ handler_pc = "except"
    /\ Respond(500)
    /\ UNCHANGED <<request_body, handler_locals, trace>>
    /\ UNCHANGED <<calculator, limiter, cache, generator, batch>>

NextHandler ==
    \/ ReadRequest
    \/ \E rows \in HandlerHoldings : FetchHoldings(rows)
    \/ \E ratio \in Ratios : FetchPosition(ratio)
    \/ \E closes \in PrevCloseDicts(CallCloses) : FetchPrevClose(closes)
    \/ /\ handler_pc = "klines"
       /\ \E klines_map \in [CodesOf(Val(handler_locals.holdings)) ->
                                 SeqsUpTo(Klines, 1)] :
             FetchKlines(klines_map)
    \/ Construct
    \/ Valuate
    \/ Summarize
    \/ Answer
    \/ RaiseException
    \/ HandleException

SpecHandler == InitHandler /\ [][NextHandler]_vars

\* what the trace tells
Fetched(what) == \E k \in DOMAIN trace : trace[k] = what
HasRaised == Fetched("exception")
Answered(status) == response = Some(status)

\* C30: an empty fund code is answered with 400 before anything is fetched;
\* empty holdings are answered with 404 before the position ratio, the
\* previous closes or the intraday quotes are fetched and before a calculator
\* is built; an exception of a later step is answered with 500; so a
\* calculator is only ever built from non-empty holdings.
C30_HandlerStatusCodes ==
    /\ (request_body # None /\ Strip(Val(request_body)) = <<>> /\ handler_pc = "done")
          => Answered(400)
    /\ Answered(400) => (trace = <<>> /\ pc = "none")
    /\ (handler_locals.holdings = Some(<<>>) /\ handler_pc = "done") => Answered(404)
    /\ Answered(404) => (trace = <<"holdings">> /\ pc = "none")
    /\ (HasRaised /\ handler_pc = "done") => Answered(500)
    /\ Answered(500) => HasRaised
    /\ pc # "none" => (holdings_data # <<>> /\ Val(handler_locals.holdings) # <<>>)
    /\ Answered(200) => (~HasRaised /\ pc = "summarized")

C30_Witness ==
    /\ Answered(404)
    /\ request_body = Some(<<Blank, "F", "1">>)
    /\ handler_locals.holdings = Some(<<>>)
    /\ handler_locals.stock_position = None
    /\ pc = "none"

C30_WitnessException ==
    /\ Answered(500)
    /\ pc = "valued"
    /\ trace = <<"holdings", "stock_position", "prev_close", "intraday_klines",
                 "exception">>

====
